---- MODULE Spec2Model ----
(***************************************************************************)
(* Model of the fixed-capacity ring buffer of src/src/lib.rs (Ring<T>).    *)
(*                                                                         *)
(* A Ring is a record [buffer, write, read].  buffer is a function from    *)
(* 0..n-1 to Option<T>; write and read are usize counters.  usize is       *)
(* modelled with a reduced width of Bits bits so that the rollover of the  *)
(* counters is within reach of exhaustive search; all counter arithmetic   *)
(* is done modulo 2^Bits exactly where the source uses wrapping_* and      *)
(* exactly (unbounded) where the source uses the checked operators.        *)
(*                                                                         *)
(* Option<X> is modelled as a sequence: None is << >>, Some(x) is <<x>>.   *)
(* Items pushed are tickets 0, 1, 2, ... numbered by accepted pushes, so   *)
(* every stored value is distinct and its position in push order is known. *)
(***************************************************************************)
EXTENDS Integers, FiniteSets, Sequences, TLC

\* Width of the counter type (usize), scaled down.  2^4 and 2^64 leave the
\* same remainder modulo every slot count from 1 to 16, so the slot a counter
\* addresses just before and just after the rollover is the one of the 64-bit
\* build.
Bits == 4
\* Largest number of slots of the buffers explored.
MaxCap == 6
\* Number of accepted pushes explored beyond one full turn of the counter.
Slack == 8
\* `len` of the documentation example round_trip.
DocLen == 16

CounterMod == 2 ^ Bits
\* std::usize::MAX
MAX == CounterMod - 1
\* Accepted pushes explored on a ring made by with_size (its counters start at
\* 0 and have to go round once) and on a ring made by a struct literal.
MaxItems == CounterMod + Slack
MaxLiteralItems == MaxCap + Slack

VARIABLES
    origin,   \* how the ring was made: "start" | "with_size" | "literal" | "probe"
    size,     \* the number of slots asked for at construction
    ring,     \* Option<Ring>: what construction returned, as mutated since
    pushed,   \* number of pushes that returned None so far
    taken,    \* number of reads that returned Some so far
    last      \* the last call: its name, argument, result and the ring before it

vars == <<origin, size, ring, pushed, taken, last>>

----------------------------------------------------------------------------
\* Option<T>

NoneV == << >>
Some(x) == <<x>>
IsSome(o) == o # NoneV
Unwrap(o) == o[1]

----------------------------------------------------------------------------
\* usize arithmetic

wrapping_add_saturating(a, b) == IF a + b > MAX THEN MAX ELSE a + b

wrapping_add(a, b) == (a + b) % CounterMod

wrapping_sub(a, b) == (a - b + CounterMod) % CounterMod

----------------------------------------------------------------------------
\* Ring<T>

buffer_len(self) == Cardinality(DOMAIN self.buffer)

\* buffer: vec![None; n]
vec_none(n) == [i \in 0 .. n - 1 |-> NoneV]

with_size_rejects_even(n) ==
    IF n % 2 = 0
    THEN NoneV
    ELSE Some([buffer |-> vec_none(n), write |-> 0, read |-> 0])

with_size(n) ==
    IF n % 4 = 0
    THEN NoneV
    ELSE Some([buffer |-> vec_none(n), write |-> 0, read |-> 0])

\* The struct literal of test::wrap_at_end, for any slot count and any
\* common value of the two counters.
ring_literal(n, c) == Some([buffer |-> vec_none(n), write |-> c, read |-> c])

len_wide_off_by_one(self) ==
    IF self.write < self.read
    THEN (MAX - self.read) + self.write
    ELSE self.write - self.read

\* The value of the expression of len() in exact integer arithmetic: `-` and
\* `+` are the overflow-checked operators of the source, only wrapping_sub
\* wraps.
len_wide(self) ==
    IF self.write < self.read
    THEN (MAX - wrapping_sub(self.read, 1)) + self.write
    ELSE self.write - self.read

\* TRUE when a step of len() leaves the range of usize.
len_overflows(self) ==
    IF self.write < self.read
    THEN \/ MAX - wrapping_sub(self.read, 1) < 0
         \/ (MAX - wrapping_sub(self.read, 1)) + self.write > MAX
    ELSE self.write - self.read < 0

len(self) == len_wide(self) % CounterMod

is_empty(self) == len(self) = 0

push_accepts_when_full(self, item) ==
    LET n == buffer_len(self)
    IN  IF len(self) <= n
        THEN LET w1 == IF IsSome(self.buffer[self.write % n])
                       THEN wrapping_add(self.write, 1)
                       ELSE self.write
             IN  [self |-> [self EXCEPT !.buffer[w1 % n] = Some(item),
                                        !.write = wrapping_add(w1, 1)],
                  ret  |-> NoneV]
        ELSE [self |-> self, ret |-> Some(item)]

push_overwrites_oldest(self, item) ==
    LET n == buffer_len(self)
    IN  IF len(self) < n
        THEN LET w1 == IF IsSome(self.buffer[self.write % n])
                       THEN wrapping_add(self.write, 1)
                       ELSE self.write
             IN  [self |-> [self EXCEPT !.buffer[w1 % n] = Some(item),
                                        !.write = wrapping_add(w1, 1)],
                  ret  |-> NoneV]
        ELSE [self |-> [self EXCEPT !.buffer[self.write % n] = Some(item),
                                    !.write = wrapping_add(self.write, 1),
                                    !.read = wrapping_add(self.read, 1)],
              ret  |-> NoneV]

\* push: the ring after the call and the value returned.
push(self, item) ==
    LET n == buffer_len(self)
    IN  IF len(self) < n
        THEN LET w1 == IF IsSome(self.buffer[self.write % n])
                       THEN wrapping_add(self.write, 1)
                       ELSE self.write
             IN  [self |-> [self EXCEPT !.buffer[w1 % n] = Some(item),
                                        !.write = wrapping_add(w1, 1)],
                  ret  |-> NoneV]
        ELSE [self |-> self, ret |-> Some(item)]

read_always_advances(self) ==
    LET n   == buffer_len(self)
        res == self.buffer[self.read % n]
    IN  [self |-> [self EXCEPT !.buffer[self.read % n] = NoneV,
                               !.read = wrapping_add(self.read, 1)],
         ret  |-> res]

\* read: the ring after the call and the value returned.
read(self) ==
    IF is_empty(self)
    THEN [self |-> self, ret |-> NoneV]
    ELSE LET n   == buffer_len(self)
             res == self.buffer[self.read % n]
         IN  [self |-> [self EXCEPT !.buffer[self.read % n] = NoneV,
                                    !.read = IF IsSome(res)
                                             THEN wrapping_add(self.read, 1)
                                             ELSE self.read],
              ret  |-> res]

----------------------------------------------------------------------------
\* The state machine

NoCall == [op |-> "none", item |-> 0, ret |-> NoneV, pre |-> NoneV]

Init ==
    /\ origin = "start"
    /\ size = 0
    /\ ring = NoneV
    /\ pushed = 0
    /\ taken = 0
    /\ last = NoCall

\* let ring = Ring::with_size(n);
WithSize(n) ==
    /\ origin = "start"
    /\ origin' = "with_size"
    /\ size' = n
    /\ ring' = with_size(n)
    /\ UNCHANGED <<pushed, taken, last>>

\* let ring = Ring { buffer: vec![None; n], write: c, read: c };
Literal(n, c) ==
    /\ origin = "start"
    /\ origin' = "literal"
    /\ size' = n
    /\ ring' = ring_literal(n, c)
    /\ UNCHANGED <<pushed, taken, last>>

\* The exploration stops pushing after Budget accepted pushes.
Budget == IF origin = "with_size" THEN MaxItems ELSE MaxLiteralItems

\* ring.push(item), item being the next ticket
Push ==
    /\ IsSome(ring)
    /\ pushed < Budget
    /\ LET item == pushed
           r    == push(Unwrap(ring), item)
       IN  /\ ring' = Some(r.self)
           /\ pushed' = IF IsSome(r.ret) THEN pushed ELSE pushed + 1
           /\ last' = [op |-> "push", item |-> item, ret |-> r.ret, pre |-> ring]
    /\ UNCHANGED <<origin, size, taken>>

\* ring.read()
Read ==
    /\ IsSome(ring)
    /\ LET r == read(Unwrap(ring))
       IN  /\ ring' = Some(r.self)
           /\ taken' = IF IsSome(r.ret) THEN taken + 1 ELSE taken
           /\ last' = [op |-> "read", item |-> 0, ret |-> r.ret, pre |-> ring]
    /\ UNCHANGED <<origin, size, pushed>>

\* ring.len()
LenCall ==
    /\ IsSome(ring)
    /\ last' = [op |-> "len", item |-> 0, ret |-> Some(len(Unwrap(ring))),
                pre |-> ring]
    /\ UNCHANGED <<origin, size, ring, pushed, taken>>

\* ring.is_empty()
IsEmptyCall ==
    /\ IsSome(ring)
    /\ last' = [op |-> "is_empty", item |-> 0,
                ret |-> Some(is_empty(Unwrap(ring))), pre |-> ring]
    /\ UNCHANGED <<origin, size, ring, pushed, taken>>

Next ==
    \/ \E n \in (0 .. MaxCap) \cup {DocLen} : WithSize(n)
    \/ \E n \in 1 .. MaxCap, c \in 0 .. MAX : Literal(n, c)
    \/ Push
    \/ Read
    \/ LenCall
    \/ IsEmptyCall

Spec == Init /\ [][Next]_vars

\* len() and is_empty() on a ring whose two counters take every pair of
\* values of the counter type.
InitLen ==
    /\ origin = "probe"
    /\ size = 1
    /\ \E w \in 0 .. MAX, r \in 0 .. MAX :
           ring = Some([buffer |-> vec_none(1), write |-> w, read |-> r])
    /\ pushed = 0
    /\ taken = 0
    /\ last = NoCall

NextLen ==
    \/ LenCall
    \/ IsEmptyCall

SpecLen == InitLen /\ [][NextLen]_vars

----------------------------------------------------------------------------
\* Shorthands for the claims

Self == Unwrap(ring)
Pre == Unwrap(last.pre)
Built == IsSome(ring)
Called(op) == last.op = op
Accepted == Called("push") /\ last.ret = NoneV
Rejected == Called("push") /\ IsSome(last.ret)
ReadSome == Called("read") /\ IsSome(last.ret)
ReadNone == Called("read") /\ last.ret = NoneV
\* The index of the slot that counter value c addresses in ring r.
SlotOf(r, c) == c % buffer_len(r)
\* Distance from b forward to a on the circle of counter values.
CircleDistance(a, b) == (a - b + CounterMod) % CounterMod
\* The read just made returned the next ticket in push order: tickets are
\* handed out 0, 1, 2, ... to the accepted pushes, so the k-th read that
\* returns Some must return ticket k-1, and that ticket must have been pushed.
InPushOrder == Unwrap(last.ret) = taken - 1 /\ taken <= pushed
\* Number of reads that had returned Some before the read just made.
TakenBefore == IF IsSome(last.ret) THEN taken - 1 ELSE taken

----------------------------------------------------------------------------
\* C1: FIFO order.  On a ring returned by with_size, the reads that return
\* Some return, in order, a prefix of the items of the accepted pushes: the
\* k-th such read returns the item of the k-th accepted push.
C1_FifoOrder ==
    (origin = "with_size" /\ ReadSome) => InPushOrder

\* C2: capacity bound.  In every state of a constructed ring, len() is at
\* most the number of slots.
C2_CapacityBound ==
    Built => len(Self) <= buffer_len(Self)

\* C3: full-buffer rejection.  A push made when len() equals the number of
\* slots returns Some(item) with the item pushed and leaves the slots and both
\* counters (hence len()) as they were.
C3_FullRejection ==
    (Called("push") /\ len(Pre) = buffer_len(Pre))
        => (last.ret = Some(last.item) /\ ring = last.pre)

C3_Witness ==
    /\ Called("push")
    /\ len(Pre) = buffer_len(Pre)
    /\ last.ret = Some(last.item)
    /\ pushed = buffer_len(Pre)

\* C4: accepted push.  A push made when len() is less than the number of
\* slots returns None, stores the item in the slot addressed by the write
\* counter as it was before the call, and advances the write counter by
\* exactly 1 modulo the counter width, so that len() grows by exactly 1.
C4_AcceptedPush ==
    (Called("push") /\ len(Pre) < buffer_len(Pre))
        => /\ last.ret = NoneV
           /\ Self.buffer = [Pre.buffer EXCEPT ![SlotOf(Pre, Pre.write)] =
                                                   Some(last.item)]
           /\ Self.write = wrapping_add(Pre.write, 1)
           /\ Self.read = Pre.read
           /\ len(Self) = len(Pre) + 1

\* C5: empty-buffer underflow.  A read made when the ring is empty (is_empty()
\* holds, or every accepted item has been read) returns None and leaves the
\* slots and both counters as they were.
C5_EmptyUnderflow ==
    (Called("read") /\ (is_empty(Pre) \/ pushed = TakenBefore))
        => (last.ret = NoneV /\ ring = last.pre)

C5_Witness ==
    /\ ReadNone
    /\ is_empty(Pre)
    /\ pushed > 0
    /\ pushed = taken
    /\ ring = last.pre

\* C6: successful read.  A read made when len() > 0 returns Some(v), v being
\* the value in the slot addressed by the read counter, leaves that slot
\* empty, and advances the read counter by exactly 1 modulo the counter
\* width, so that len() shrinks by exactly 1.
C6_SuccessfulRead ==
    (Called("read") /\ len(Pre) > 0)
        => /\ IsSome(last.ret)
           /\ last.ret = Pre.buffer[SlotOf(Pre, Pre.read)]
           /\ Self.buffer = [Pre.buffer EXCEPT ![SlotOf(Pre, Pre.read)] = NoneV]
           /\ Self.read = wrapping_add(Pre.read, 1)
           /\ Self.write = Pre.write
           /\ len(Self) = len(Pre) - 1

\* C7: counter wraparound.  On a ring of any number of slots >= 1 that
\* starts empty with its two counters equal, at any value up to the maximum,
\* len() stays equal to the accepted pushes minus the reads that returned
\* Some, len() stays at most the number of slots, and reads return the items
\* in push order.
C7_Wraparound ==
    origin = "literal"
        => /\ len(Self) = pushed - taken
           /\ len(Self) <= buffer_len(Self)
           /\ ReadSome => InPushOrder

\* C8: rollover when the number of slots divides 2^Bits.  On a ring that
\* starts empty with its two counters equal at any value, every accepted push
\* raises len() by exactly 1, the stale-slot skip of push is never taken (the
\* slot addressed by the write counter is empty whenever a push is accepted),
\* and reads return the accepted items in push order.
C8_PowerOfTwoRollover ==
    (origin = "literal" /\ CounterMod % size = 0)
        => /\ Accepted => /\ len(Self) = len(Pre) + 1
                          /\ Pre.buffer[SlotOf(Pre, Pre.write)] = NoneV
           /\ ReadSome => InPushOrder

\* A 4-slot ring as in test::wrap_at_end whose write counter has rolled over
\* while the read counter has not, and a read returning an item there.
C8_Witness ==
    /\ origin = "literal"
    /\ size = 4
    /\ ReadSome
    /\ Pre.write < Pre.read
    /\ InPushOrder

\* C9: len() arithmetic.  For every pair of counter values, len() returns
\* (write - read) mod 2^Bits and no step of its computation leaves the range
\* of the counter type.
C9_LenArithmetic ==
    Called("len")
        => /\ last.ret = Some(CircleDistance(Pre.write, Pre.read))
           /\ ~len_overflows(Pre)

\* len() in the write < read branch, at the extreme pair (0, MAX).
C9_Witness ==
    /\ Called("len")
    /\ Pre.write = 0
    /\ Pre.read = MAX
    /\ last.ret = Some(1)

\* C10: the documented round trip.  with_size(16) returns a ring; on it a
\* push made with fewer than 16 items stored returns None, a push made with
\* 16 stored returns the item back, and reads return the items in push order.
C10_DocRoundTrip ==
    (origin = "with_size" /\ size = DocLen)
        => /\ Built
           /\ (Called("push") /\ len(Pre) < DocLen) => last.ret = NoneV
           /\ (Called("push") /\ len(Pre) = DocLen) => last.ret = Some(last.item)
           /\ ReadSome => InPushOrder

\* Number of slots of ring r that hold a value.
Occupied(r) == Cardinality({i \in DOMAIN r.buffer : IsSome(r.buffer[i])})
\* The ring is as construction returned it: no call has been made on it.
Fresh == last = NoCall

C12_FullAndEmptyBySlots ==
    /\ Called("push") => (Rejected <=> Occupied(Pre) = buffer_len(Pre))
    /\ Called("is_empty") => (last.ret = Some(TRUE) <=> Occupied(Pre) = 0)

\* C13: occupancy invariant.  Slot i holds a value if and only if i is the
\* slot of some counter value in the circular range from the read counter
\* (inclusive) to the write counter (exclusive); hence the number of occupied
\* slots equals len().
InCounterRange(r, i) ==
    \E k \in 0 .. len(r) - 1 : SlotOf(r, wrapping_add(r.read, k)) = i

C13_Occupancy ==
    Built => /\ \A i \in DOMAIN Self.buffer :
                    IsSome(Self.buffer[i]) <=> InCounterRange(Self, i)
             /\ Occupied(Self) = len(Self)

\* C14: stale slot unreachable through the public constructor.  On a ring made
\* by with_size, whenever push passes its len() < buffer_len check the slot
\* addressed by the write counter is empty, so the branch that advances the
\* write counter an extra step is never taken.
C14_NoStaleSlotFromWithSize ==
    (origin = "with_size" /\ Called("push") /\ len(Pre) < buffer_len(Pre))
        => Pre.buffer[SlotOf(Pre, Pre.write)] = NoneV

\* k consecutive calls of read: the ring after them and whether every one of
\* them returned Some.
RECURSIVE read_times(_, _)
read_times(self, k) ==
    IF k = 0
    THEN [self |-> self, all_some |-> TRUE]
    ELSE LET r    == read(self)
             rest == read_times(r.self, k - 1)
         IN  [self |-> rest.self, all_some |-> IsSome(r.ret) /\ rest.all_some]

\* Every slot holds a value and push is refused.
Full(r) == Occupied(r) = buffer_len(r) /\ IsSome(push(r, pushed).ret)

\* C15: idempotent emptiness.  From any state in which the ring is full with
\* N = buffer_len items, N consecutive reads all return Some and leave
\* is_empty() true, a push(x) made next returns None and the read after it
\* returns Some(x).
C15_IdempotentEmptiness ==
    (Built /\ Full(Self))
        => LET drained == read_times(Self, buffer_len(Self))
               p       == push(drained.self, pushed)
               r       == read(p.self)
           IN  /\ drained.all_some
               /\ is_empty(drained.self)
               /\ p.ret = NoneV
               /\ r.ret = Some(pushed)

\* C16: no stuck state.  In no state of a constructed ring would push return
\* the item back and read return None.
C16_NoStuckState ==
    Built => ~(IsSome(push(Self, pushed).ret) /\ read(Self).ret = NoneV)

\* C17: no silent overwrite.  The slot an accepted push assigns (the one
\* addressed by the write counter after the optional skip, i.e. by the final
\* write counter minus 1) was empty before the call.
C17_NoSilentOverwrite ==
    Accepted => Pre.buffer[SlotOf(Pre, wrapping_sub(Self.write, 1))] = NoneV

\* The slots in which rings a and b differ.
ChangedSlots(a, b) == {i \in DOMAIN a.buffer : a.buffer[i] # b.buffer[i]}

\* C18: frame of each operation.  push never changes the read counter and
\* changes at most one slot; read never changes the write counter and changes
\* at most the slot addressed by the read counter; a read that returns None
\* changes nothing at all, also when the ring is not empty; len() and
\* is_empty() change nothing; the number of slots never changes.
C18_Frame ==
    /\ Called("push") => /\ Self.read = Pre.read
                         /\ Cardinality(ChangedSlots(Pre, Self)) <= 1
    /\ Called("read") => /\ Self.write = Pre.write
                         /\ ChangedSlots(Pre, Self) \subseteq
                                {SlotOf(Pre, Pre.read)}
    /\ ReadNone => ring = last.pre
    /\ (Called("len") \/ Called("is_empty")) => ring = last.pre
    /\ Built => buffer_len(Self) = size
    /\ ~Fresh => DOMAIN Self.buffer = DOMAIN Pre.buffer

\* A read that returned None on a ring that is not empty, and changed nothing.
C18_Witness ==
    /\ ReadNone
    /\ ~is_empty(Pre)
    /\ ring = last.pre

====
